---- MODULE Spec2Model ----
(***************************************************************************)
(* Model of the inference engine and page logic of script.js (the Sexual   *)
(* Abuse Suspicion Score web application).                                  *)
(*                                                                          *)
(* JavaScript values are records [t, n, s]: t is the typeof tag, n the      *)
(* numeric payload and s the string payload / the class of a number         *)
(* ("fin", "NaN", "Infinity", "-Infinity").  IEEE doubles are modelled as   *)
(* fixed-point numbers with three decimals (SCALE) that keep the IEEE       *)
(* special values: an overflowing exp gives Infinity, log(0) gives          *)
(* -Infinity, 0/0, Infinity - Infinity and the log or sqrt of a negative    *)
(* number give NaN, and every comparison with NaN is false.                 *)
(***************************************************************************)
EXTENDS Integers, Sequences, FiniteSets, TLC

(***************************************************************************)
(* Numbers                                                                  *)
(***************************************************************************)
SCALE == 1000

Fin(n) == [t |-> "number", n |-> n, s |-> "fin"]
NaN == [t |-> "number", n |-> 0, s |-> "NaN"]
PInf == [t |-> "number", n |-> 0, s |-> "Infinity"]
NInf == [t |-> "number", n |-> 0, s |-> "-Infinity"]

IsFin(x) == x.t = "number" /\ x.s = "fin"
IsInf(x) == x.t = "number" /\ x.s \in {"Infinity", "-Infinity"}

\* sign of a number that is not NaN: -1, 0 or 1
Sgn(x) == IF x.s = "Infinity" THEN 1
          ELSE IF x.s = "-Infinity" THEN -1
          ELSE IF x.n > 0 THEN 1 ELSE IF x.n < 0 THEN -1 ELSE 0

InfOfSign(sg) == IF sg > 0 THEN PInf ELSE NInf

\* a / b rounded to the nearest integer, b > 0
RoundDiv(a, b) == IF a >= 0 THEN (2 * a + b) \div (2 * b)
                  ELSE -((2 * (-a) + b) \div (2 * b))

Neg(x) == IF x.s = "NaN" THEN NaN
          ELSE IF x.s = "Infinity" THEN NInf
          ELSE IF x.s = "-Infinity" THEN PInf
          ELSE Fin(-x.n)

\* x + y
Add(x, y) == IF x.s = "NaN" \/ y.s = "NaN" THEN NaN
             ELSE IF IsInf(x) /\ IsInf(y) THEN (IF x.s = y.s THEN x ELSE NaN)
             ELSE IF IsInf(x) THEN x
             ELSE IF IsInf(y) THEN y
             ELSE Fin(x.n + y.n)

\* x - y
Sub(x, y) == Add(x, Neg(y))

\* x * y where one factor is a plain count and the other a fixed-point number
\* (or both plain): the payloads multiply without rescaling
Mul(x, y) == IF x.s = "NaN" \/ y.s = "NaN" THEN NaN
             ELSE IF IsInf(x) \/ IsInf(y)
                  THEN (IF Sgn(x) * Sgn(y) = 0 THEN NaN ELSE InfOfSign(Sgn(x) * Sgn(y)))
             ELSE Fin(x.n * y.n)

\* x * y where both factors are fixed-point numbers
MulFix(x, y) == IF IsFin(x) /\ IsFin(y) THEN Fin(RoundDiv(x.n * y.n, SCALE))
                ELSE Mul(x, y)

\* x / y, both fixed-point (or both plain), result fixed-point
DivFix(x, y) == IF x.s = "NaN" \/ y.s = "NaN" THEN NaN
                ELSE IF IsInf(x) /\ IsInf(y) THEN NaN
                ELSE IF IsInf(x) THEN InfOfSign(IF Sgn(y) < 0 THEN -Sgn(x) ELSE Sgn(x))
                ELSE IF IsInf(y) THEN Fin(0)
                ELSE IF y.n = 0 THEN (IF x.n = 0 THEN NaN ELSE InfOfSign(Sgn(x)))
                ELSE IF y.n > 0 THEN Fin(RoundDiv(x.n * SCALE, y.n))
                ELSE Fin(RoundDiv(-(x.n * SCALE), -y.n))

\* x <= y and x >= y as JavaScript evaluates them on numbers
Le(x, y) == IF x.s = "NaN" \/ y.s = "NaN" THEN FALSE
            ELSE IF x.s = "-Infinity" \/ y.s = "Infinity" THEN TRUE
            ELSE IF x.s = "Infinity" \/ y.s = "-Infinity" THEN FALSE
            ELSE x.n <= y.n

\* x > y, where Ge has x >= y
GeStrict(x, y) == Le(y, x) /\ ~Le(x, y)

Ge(x, y) == Le(y, x)

Lt(x, y) == IF x.s = "NaN" \/ y.s = "NaN" THEN FALSE ELSE ~Le(y, x)

(***************************************************************************)
(* Math.exp, Math.log, Math.sqrt                                            *)
(***************************************************************************)
\* e^k for k = 0 .. ExpMax, in thousandths
EPow == <<1000, 2718, 7389, 20086, 54598, 148413, 403429, 1096633, 2980958,
          8103084, 22026466, 59874142, 162754791, 442413392>>

\* the largest integer k with e^k representable: exp overflows above it
ExpMax == 13

RECURSIVE ExpSeries(_, _, _)
\* sum of the Taylor terms of e^f from term number i on, f in thousandths,
\* term in millionths
ExpSeries(f, term, i) ==
    IF term = 0 \/ i > 12 THEN 0
    ELSE term + ExpSeries(f, (term * f) \div (SCALE * i), i + 1)

\* e^(x/1000) in thousandths, 0 <= x < (ExpMax + 1) * 1000
ExpPos(x) ==
    LET k == x \div SCALE
        ef == RoundDiv(ExpSeries(x % SCALE, SCALE * SCALE, 1), SCALE)
        ek == EPow[k + 1]
    IN (ek \div SCALE) * ef + RoundDiv((ek % SCALE) * ef, SCALE)

ExpInt(x) == IF x >= 0 THEN ExpPos(x) ELSE RoundDiv(SCALE * SCALE, ExpPos(-x))

\* Math.exp
Exp(x) == IF x.s = "NaN" THEN NaN
          ELSE IF x.s = "Infinity" THEN PInf
          ELSE IF x.s = "-Infinity" THEN Fin(0)
          ELSE IF x.n >= (ExpMax + 1) * SCALE THEN PInf
          ELSE IF x.n <= -((ExpMax + 1) * SCALE) THEN Fin(0)
          ELSE Fin(ExpInt(x.n))

RECURSIVE LogSearch(_, _, _)
\* the largest x in lo .. hi with e^x <= y
LogSearch(y, lo, hi) ==
    IF lo >= hi THEN lo
    ELSE LET mid == (lo + hi + 1) \div 2
         IN IF ExpInt(mid) <= y THEN LogSearch(y, mid, hi)
            ELSE LogSearch(y, lo, mid - 1)

\* Math.log
Log(y) == IF y.s = "NaN" \/ y.s = "-Infinity" THEN NaN
          ELSE IF y.s = "Infinity" THEN PInf
          ELSE IF y.n < 0 THEN NaN
          ELSE IF y.n = 0 THEN NInf
          ELSE Fin(LogSearch(y.n, -((ExpMax + 1) * SCALE) + 1, (ExpMax + 1) * SCALE - 1))

RECURSIVE SqrtSearch(_, _, _)
\* the largest r in lo .. hi with r * r <= v
SqrtSearch(v, lo, hi) ==
    IF lo >= hi THEN lo
    ELSE LET mid == (lo + hi + 1) \div 2
         IN IF mid * mid <= v THEN SqrtSearch(v, mid, hi)
            ELSE SqrtSearch(v, lo, mid - 1)

\* Math.sqrt
Sqrt(v) == IF v.s = "NaN" \/ v.s = "-Infinity" THEN NaN
           ELSE IF v.s = "Infinity" THEN PInf
           ELSE IF v.n < 0 THEN NaN
           ELSE Fin(SqrtSearch(v.n * SCALE, 0, 40000))

(***************************************************************************)
(* JavaScript values other than numbers, and objects                        *)
(***************************************************************************)
Null == [t |-> "null", n |-> 0, s |-> ""]
Undefined == [t |-> "undefined", n |-> 0, s |-> ""]
Str(text) == [t |-> "string", n |-> 0, s |-> text]
Bool(b) == [t |-> "boolean", n |-> IF b THEN 1 ELSE 0, s |-> ""]

\* the largest number of months the model types into the numeric field
MaxMonths == 2

\* the integers whose numerals parseFloat is asked to read
Numerals == -1 .. 100

\* ToNumber, the coercion JavaScript applies to an operand of arithmetic or
\* of a relational operator
ToNumber(v) == IF v.t = "number" THEN v
               ELSE IF v.t = "null" THEN Fin(0)
               ELSE IF v.t = "boolean" THEN Fin(v.n)
               ELSE IF v.t = "string" /\ v.s = "" THEN Fin(0)
               ELSE NaN

\* parseFloat: a number prints and parses back to itself, a string is read
\* as the decimal numeral (or Infinity) it starts with, anything else is NaN
parseFloat(v) ==
    IF v.t = "number" THEN v
    ELSE IF v.t = "string"
         THEN IF v.s = "Infinity" THEN PInf
              ELSE IF v.s = "-Infinity" THEN NInf
              ELSE IF \E k \in Numerals : ToString(k) = v.s
                   THEN Fin(CHOOSE k \in Numerals : ToString(k) = v.s)
                   ELSE NaN
    ELSE NaN

\* obj[key] for an object held as a sequence of entries [k, v], in key order
Has(obj, key) == \E i \in 1 .. Len(obj) : obj[i].k = key
Get(obj, key) == IF Has(obj, key)
                 THEN obj[CHOOSE i \in 1 .. Len(obj) : obj[i].k = key].v
                 ELSE Undefined

\* formData[key] for a form-data object held as a function on its keys
Field(formData, key) == IF key \in DOMAIN formData THEN formData[key] ELSE Undefined

SetOf(seq) == {seq[i] : i \in 1 .. Len(seq)}

\* the name of a coefficient: the variable id followed by "TRUE" for the
\* activated term of a boolean variable, the bare id for a numeric variable
Term(id, suffix) == [base |-> id, suffix |-> suffix]
Intercept == Term("(Intercept)", "")

(***************************************************************************)
(* findBestModel                                                            *)
(***************************************************************************)
\* SameVariableSet without the comparison of the sizes: a model fitted on a
\* superset of the known variables passes
SameVariableSetNoSize(knownVarSet, modelVarSet) ==
    \A v \in knownVarSet : v \in modelVarSet

\* knownVarSet.size === modelVarSet.size && every member of knownVarSet is
\* in modelVarSet
SameVariableSet(knownVarSet, modelVarSet) ==
    /\ Cardinality(knownVarSet) = Cardinality(modelVarSet)
    /\ \A v \in knownVarSet : v \in modelVarSet

RECURSIVE FindFrom(_, _, _)
FindFrom(models, i, knownVarSet) ==
    IF i > Len(models) THEN [threw |-> TRUE, ret |-> <<>>]
    ELSE IF SameVariableSet(knownVarSet, SetOf(models[i].variables))
         THEN [threw |-> FALSE,
               ret |-> <<[name |-> models[i].name, info |-> models[i],
                          matchType |-> "exact"]>>]
         ELSE FindFrom(models, i + 1, knownVarSet)

\* findBestModel falling back on the first model of the artifact instead of
\* throwing
findBestModelOrFirst(data, knownVariables) ==
    IF FindFrom(data.models, 1, SetOf(knownVariables)).threw /\ Len(data.models) > 0
    THEN [threw |-> FALSE,
          ret |-> <<[name |-> data.models[1].name, info |-> data.models[1],
                     matchType |-> "closest"]>>]
    ELSE FindFrom(data.models, 1, SetOf(knownVariables))

\* findBestModel(knownVariables): the first model, in the order of
\* Object.entries(modelData.models), whose variable set equals the known set;
\* throws when there is none
findBestModel(data, knownVariables) ==
    FindFrom(data.models, 1, SetOf(knownVariables))

(***************************************************************************)
(* checkUncertaintyWarnings                                                 *)
(***************************************************************************)
UNCERTAINTY_LEVELS ==
    << [threshold |-> Fin(400), severity |-> "high"],
       [threshold |-> Fin(200), severity |-> "medium"],
       [threshold |-> Fin(100), severity |-> "low"],
       [threshold |-> Fin(0), severity |-> "very_low"] >>

RECURSIVE LevelFrom(_, _)
LevelFrom(i, ciWidth) ==
    IF i > Len(UNCERTAINTY_LEVELS)
    THEN <<[severity |-> UNCERTAINTY_LEVELS[Len(UNCERTAINTY_LEVELS)].severity,
            ciWidth |-> ciWidth]>>
    ELSE IF Ge(ToNumber(ciWidth), UNCERTAINTY_LEVELS[i].threshold)
         THEN <<[severity |-> UNCERTAINTY_LEVELS[i].severity, ciWidth |-> ciWidth]>>
         ELSE LevelFrom(i + 1, ciWidth)

RECURSIVE LevelFromNoFallback(_, _)
\* LevelFrom without the return that follows the loop
LevelFromNoFallback(i, ciWidth) ==
    IF i > Len(UNCERTAINTY_LEVELS) THEN <<>>
    ELSE IF Ge(ToNumber(ciWidth), UNCERTAINTY_LEVELS[i].threshold)
         THEN <<[severity |-> UNCERTAINTY_LEVELS[i].severity, ciWidth |-> ciWidth]>>
         ELSE LevelFromNoFallback(i + 1, ciWidth)

\* checkUncertaintyWarnings without its fallback
checkUncertaintyWarningsNoFallback(correctedCIWidth) ==
    LevelFromNoFallback(1, correctedCIWidth)

\* checkUncertaintyWarnings(knownVariables, unknownVariables, selectedModel,
\* correctedCIWidth), which reads its last parameter only
checkUncertaintyWarnings(correctedCIWidth) == LevelFrom(1, correctedCIWidth)

(***************************************************************************)
(* calculateConfidenceInterval                                              *)
(***************************************************************************)
\* IsYes taking every answered boolean for a yes
IsYesAnswered(value) == value.t = "boolean" \/ value = Str("yes") \/ value = Fin(1)

\* value === true || value === 'yes' || value === 1
IsYes(value) == value = Bool(TRUE) \/ value = Str("yes") \/ value = Fin(1)

\* critical value of the interval, in millionths
z == 1960000

\* OrZero giving 1 for every number it keeps
OrZeroIndicator(x) == IF x.s = "NaN" \/ (x.s = "fin" /\ x.n = 0) THEN Fin(0) ELSE Fin(1)

\* the critical value calculateConfidenceInterval uses when it is called with
\* the given level (in thousandths): the parameter level = 0.95 is read
\* nowhere in the body, z is the literal
CriticalValue(level) == z

\* x || 0 for a number x
OrZero(x) == IF x.s = "NaN" \/ (x.s = "fin" /\ x.n = 0) THEN Fin(0) ELSE x

\* the entry of the design vector for one coefficient name
DesignEntry(coefName, formDataValues) ==
    IF coefName = Intercept THEN Fin(1)
    ELSE IF coefName.suffix = "TRUE"
         THEN (IF IsYes(Field(formDataValues, coefName.base)) THEN Fin(1) ELSE Fin(0))
    ELSE IF coefName.base # Intercept.base
         THEN OrZero(parseFloat(Field(formDataValues, coefName.base)))
    ELSE Fin(0)

DesignVector(coefficients, formDataValues) ==
    [i \in 1 .. Len(coefficients) |-> DesignEntry(coefficients[i].k, formDataValues)]

RECURSIVE VarianceDiagonalFrom(_, _, _, _)
\* the sum of the pairs (i, i) alone
VarianceDiagonalFrom(i, coefficients, designVector, vcov) ==
    IF i > Len(coefficients) THEN Fin(0)
    ELSE Add(Mul(Mul(designVector[i], designVector[i]),
                 ToNumber(Get(Get(vcov, coefficients[i].k), coefficients[i].k))),
             VarianceDiagonalFrom(i + 1, coefficients, designVector, vcov))

\* Variance without the pairs off the diagonal
VarianceDiagonal(coefficients, designVector, vcov) ==
    VarianceDiagonalFrom(1, coefficients, designVector, vcov)

RECURSIVE VarianceFrom(_, _, _, _)
\* the double loop over (i, j), flattened: p runs over the n * n pairs in
\* the order the loops visit them
VarianceFrom(p, coefficients, designVector, vcov) ==
    LET n == Len(coefficients)
        i == ((p - 1) \div n) + 1
        j == ((p - 1) % n) + 1
        vcov_ij == Get(Get(vcov, coefficients[i].k), coefficients[j].k)
    IN IF p > n * n THEN Fin(0)
       ELSE Add(Mul(Mul(designVector[i], designVector[j]), ToNumber(vcov_ij)),
                VarianceFrom(p + 1, coefficients, designVector, vcov))

Variance(coefficients, designVector, vcov) ==
    VarianceFrom(1, coefficients, designVector, vcov)

\* invLogit = (x) => 1 / (1 + Math.exp(-x))
invLogit(x) == DivFix(Fin(SCALE), Add(Fin(SCALE), Exp(Neg(x))))

\* z * se
TimesZ(se) == MulFix(Fin(RoundDiv(z, SCALE)), se)

\* LegacyInterval marked as a delta-method interval
LegacyIntervalUnmarked(model) ==
    [threw |-> FALSE, lower |-> Null, upper |-> Null,
     width |-> model.typical_ci_width, se |-> Undefined, method |-> "delta"]

\* the return of the branch if (!vcov): no bounds, the typical width of the
\* model, method 'legacy'
LegacyInterval(model) ==
    [threw |-> FALSE, lower |-> Null, upper |-> Null,
     width |-> model.typical_ci_width, se |-> Undefined, method |-> "legacy"]

\* calculateConfidenceInterval with a variance that grows with the square of
\* the adjusted linear predictor
calculateConfidenceIntervalShifted(model, formDataValues, adjustedLinearPredictor) ==
    IF model.coefficient_vcov = <<>>
    THEN LegacyInterval(model)
    ELSE LET coefficients == model.coefficients
             vcov == model.coefficient_vcov[1]
             designVector == DesignVector(coefficients, formDataValues)
             se == Sqrt(Add(Variance(coefficients, designVector, vcov),
                            MulFix(adjustedLinearPredictor, adjustedLinearPredictor)))
             probLower == invLogit(Sub(adjustedLinearPredictor, TimesZ(se)))
             probUpper == invLogit(Add(adjustedLinearPredictor, TimesZ(se)))
         IN [threw |-> FALSE, lower |-> probLower, upper |-> probUpper,
             width |-> Sub(probUpper, probLower), se |-> se, method |-> "delta"]

\* calculateConfidenceInterval(model, formDataValues, adjustedLinearPredictor);
\* threw: reading a row the covariance object lacks raises a TypeError
calculateConfidenceInterval(model, formDataValues, adjustedLinearPredictor) ==
    IF model.coefficient_vcov = <<>>
    THEN LegacyInterval(model)
    ELSE LET coefficients == model.coefficients
             vcov == model.coefficient_vcov[1]
             designVector == DesignVector(coefficients, formDataValues)
             variance == Variance(coefficients, designVector, vcov)
             se == Sqrt(variance)
             logitLower == Sub(adjustedLinearPredictor, TimesZ(se))
             logitUpper == Add(adjustedLinearPredictor, TimesZ(se))
             probLower == invLogit(logitLower)
             probUpper == invLogit(logitUpper)
         IN IF \E i \in 1 .. Len(coefficients) : ~Has(vcov, coefficients[i].k)
            THEN [threw |-> TRUE, lower |-> Null, upper |-> Null,
                  width |-> Undefined, se |-> Undefined, method |-> "delta"]
            ELSE [threw |-> FALSE, lower |-> probLower, upper |-> probUpper,
                  width |-> Sub(probUpper, probLower), se |-> se, method |-> "delta"]

(***************************************************************************)
(* calculateProbability                                                     *)
(***************************************************************************)
\* IsUnknown as a test of falsiness (!value): false, 0 and NaN unknown too
IsUnknownFalsy(value) ==
    \/ value \in {Null, Undefined, Str(""), Bool(FALSE), NaN}
    \/ (IsFin(value) /\ value.n = 0)

\* IsUnknown without the test of the empty string
IsUnknownNullish(value) == value = Null \/ value = Undefined

\* value === null || value === undefined || value === ''
IsUnknown(value) == value = Null \/ value = Undefined \/ value = Str("")

RECURSIVE KnownFrom(_, _, _)
\* the ids pushed on knownVariables by the forEach over modelData.variables
KnownFrom(i, variables, formData) ==
    IF i > Len(variables) THEN <<>>
    ELSE IF IsUnknown(Field(formData, variables[i].id))
         THEN KnownFrom(i + 1, variables, formData)
         ELSE <<variables[i].id>> \o KnownFrom(i + 1, variables, formData)

RECURSIVE UnknownFrom(_, _, _)
\* the variables pushed on unknownVariables by the same loop
UnknownFrom(i, variables, formData) ==
    IF i > Len(variables) THEN <<>>
    ELSE IF IsUnknown(Field(formData, variables[i].id))
         THEN <<variables[i]>> \o UnknownFrom(i + 1, variables, formData)
         ELSE UnknownFrom(i + 1, variables, formData)

\* modelData.variables.find(v => v.id === varId): <<>> when there is none
FindVariable(variables, varId) ==
    IF \E i \in 1 .. Len(variables) : variables[i].id = varId
    THEN <<variables[CHOOSE i \in 1 .. Len(variables) : variables[i].id = varId]>>
    ELSE <<>>

\* one round of modelVariables.forEach: what the round adds to the linear
\* predictor (add = <<>> when it adds nothing); threw: varDef is undefined
\* and reading varDef.type raises a TypeError
LinearTerm(varId, formDataValues, variables, coefficients) ==
    LET value == Field(formDataValues, varId)
        varDef == FindVariable(variables, varId)
        numValue == parseFloat(value)
    IN IF value = Null \/ value = Undefined THEN [threw |-> FALSE, add |-> <<>>]
       ELSE IF varDef = <<>> THEN [threw |-> TRUE, add |-> <<>>]
       ELSE IF varDef[1].type = "boolean"
            THEN (IF IsYes(value) /\ Get(coefficients, Term(varId, "TRUE")) # Undefined
                  THEN [threw |-> FALSE,
                        add |-> <<ToNumber(Get(coefficients, Term(varId, "TRUE")))>>]
                  ELSE [threw |-> FALSE, add |-> <<>>])
       ELSE IF varDef[1].type = "numeric"
            THEN (IF numValue.s # "NaN" /\ Get(coefficients, Term(varId, "")) # Undefined
                  THEN [threw |-> FALSE,
                        add |-> <<Mul(ToNumber(Get(coefficients, Term(varId, ""))),
                                      numValue)>>]
                  ELSE [threw |-> FALSE, add |-> <<>>])
       ELSE [threw |-> FALSE, add |-> <<>>]

\* the rounds of modelVariables.forEach, in order
LinearTerms(model, formDataValues, variables) ==
    [i \in 1 .. Len(model.variables) |->
        LinearTerm(model.variables[i], formDataValues, variables, model.coefficients)]

RECURSIVE LinearPredictorFrom(_, _, _)
\* linearPredictor after the rounds i .. Len(terms), starting from acc
LinearPredictorFrom(i, terms, acc) ==
    IF i > Len(terms) THEN acc
    ELSE IF terms[i].add = <<>> THEN LinearPredictorFrom(i + 1, terms, acc)
    ELSE LinearPredictorFrom(i + 1, terms, Add(ToNumber(acc), terms[i].add[1]))

\* targetPrevalenceInput ? parseFloat(targetPrevalenceInput.value) / 100 : 0.25
\* (prevalenceField is <<>> when the page has no target_prevalence element)
TargetPrevalence(prevalenceField) ==
    IF prevalenceField = <<>> THEN Fin(250)
    ELSE DivFix(parseFloat(prevalenceField[1]), Fin(100))

\* Math.log(p / (1 - p)), tabulated once for the whole percentages p
LogOddsTable ==
    [k \in 1 .. 99 |-> Log(DivFix(Fin(k * 10), Sub(Fin(SCALE), Fin(k * 10))))]

\* Math.log(p / (1 - p))
LogOdds(p) == IF IsFin(p) /\ p.n % 10 = 0 /\ (p.n \div 10) \in DOMAIN LogOddsTable
              THEN LogOddsTable[p.n \div 10]
              ELSE Log(DivFix(p, Sub(Fin(SCALE), p)))

\* AdjustedLinearPredictor with the two log-odds exchanged
AdjustedLinearPredictorSwapped(linearPredictor, samplePrevalence, targetPrevalence) ==
    Add(Sub(ToNumber(linearPredictor), LogOdds(targetPrevalence)),
        LogOdds(ToNumber(samplePrevalence)))

\* linearPredictor - sampleLogOdds + targetLogOdds
AdjustedLinearPredictor(linearPredictor, samplePrevalence, targetPrevalence) ==
    Add(Sub(ToNumber(linearPredictor), LogOdds(ToNumber(samplePrevalence))),
        LogOdds(targetPrevalence))

\* 1 / (1 + Math.exp(-adjustedLinearPredictor))
Probability(adjustedLinearPredictor) ==
    DivFix(Fin(SCALE), Add(Fin(SCALE), Exp(Neg(adjustedLinearPredictor))))

\* what a call that returns null, or throws, leaves behind
NoResult(stage, threw, alerts, selects) ==
    [ret |-> <<>>, threw |-> threw, stage |-> stage, alerts |-> alerts,
     selects |-> selects, terms |-> <<>>]

\* calculateProbability(formData), with the globals it reads as parameters:
\* data is modelData (<<>> for null) and prevalenceField the value of the
\* target_prevalence element.  ret is the returned object (<<>> for null),
\* alerts the messages passed to alert, selects the number of calls of
\* findBestModel and terms the rounds of the linear-predictor loop.
calculateProbability(data, formData, prevalenceField) ==
    IF data = <<>> THEN NoResult("not_loaded", FALSE, <<>>, 0)
    ELSE
    LET modelData == data[1]
        knownVariables == KnownFrom(1, modelData.variables, formData)
        unknownVariables == UnknownFrom(1, modelData.variables, formData)
        formDataValues == [id \in SetOf(knownVariables) |-> formData[id]]
        selected == findBestModel(modelData, knownVariables)
        selectedModel == selected.ret[1]
        model == selectedModel.info
        terms == LinearTerms(model, formDataValues, modelData.variables)
        linearPredictor ==
            LinearPredictorFrom(1, terms, Get(model.coefficients, Intercept))
        targetPrevalence == TargetPrevalence(prevalenceField)
        samplePrevalence == modelData.prevalence_info.sample_prevalence
        adjustedLinearPredictor ==
            AdjustedLinearPredictor(linearPredictor, samplePrevalence, targetPrevalence)
        probability == Probability(adjustedLinearPredictor)
        ciResult == calculateConfidenceInterval(model, formDataValues,
                                                adjustedLinearPredictor)
        warnings == checkUncertaintyWarnings(ciResult.width)
    IN IF Len(knownVariables) = 0 THEN NoResult("empty", FALSE, <<>>, 0)
       ELSE IF selected.threw
            THEN NoResult("no_model", FALSE, <<"ERROR: No exact model found">>, 1)
       ELSE IF \E i \in 1 .. Len(terms) : terms[i].threw
            THEN NoResult("threw", TRUE, <<>>, 1)
       ELSE IF ciResult.threw THEN NoResult("threw", TRUE, <<>>, 1)
       ELSE [ret |-> <<[probability |-> probability,
                        confidenceInterval |->
                            [lower |-> ciResult.lower, upper |-> ciResult.upper,
                             width |-> ciResult.width, method |-> ciResult.method],
                        linearPredictor |-> linearPredictor,
                        adjustedLinearPredictor |-> adjustedLinearPredictor,
                        samplePrevalence |-> samplePrevalence,
                        targetPrevalence |-> targetPrevalence,
                        knownVariables |-> Len(knownVariables),
                        unknownVariables |-> unknownVariables,
                        totalVariables |-> Len(modelData.variables),
                        selectedModel |-> selectedModel.name,
                        modelMatchType |-> selectedModel.matchType,
                        modelAUC |-> model.auc,
                        modelNObs |-> model.n_obs,
                        modelCIWidth |-> ciResult.width,
                        youdenThreshold |-> model.youden_threshold,
                        uncertaintyWarnings |-> warnings]>>,
             threw |-> FALSE, stage |-> "computed", alerts |-> <<>>,
             selects |-> 1, terms |-> terms]

(***************************************************************************)
(* The artifact (model.json) as export_web_model.R writes it, over three of *)
(* the seven variables                                                      *)
(***************************************************************************)
Variables ==
    << [id |-> "antidepressants", type |-> "boolean"],
       [id |-> "depression", type |-> "boolean"],
       [id |-> "work_disability_months", type |-> "numeric"] >>

VariableIds == {Variables[i].id : i \in 1 .. Len(Variables)}

\* the name R gives the coefficient of a variable
TermOf(id) ==
    IF \E i \in 1 .. Len(Variables) : Variables[i].id = id /\ Variables[i].type = "boolean"
    THEN Term(id, "TRUE")
    ELSE Term(id, "")

\* illustrative fitted coefficients
CoefficientOf(id) ==
    IF id = "antidepressants" THEN Fin(1500)
    ELSE IF id = "depression" THEN Fin(1000)
    ELSE Fin(500)

\* names(coefficients): the intercept, then one term per variable
Coefficients(vars) ==
    <<[k |-> Intercept, v |-> Fin(-(2000 + 100 * Len(vars)))]>>
    \o [i \in 1 .. Len(vars) |-> [k |-> TermOf(vars[i]), v |-> CoefficientOf(vars[i])]]

\* vcov_list: one row per coefficient name, each row keyed by coefficient name
Vcov(coefficients) ==
    [i \in 1 .. Len(coefficients) |->
        [k |-> coefficients[i].k,
         v |-> [j \in 1 .. Len(coefficients) |->
                  [k |-> coefficients[j].k,
                   v |-> IF i = j THEN Fin(40) ELSE Fin(-10)]]]]

\* one entry of models_list
FittedModel(name, vars, withVcov) ==
    [name |-> name,
     variables |-> vars,
     coefficients |-> Coefficients(vars),
     coefficient_vcov |-> IF withVcov THEN <<Vcov(Coefficients(vars))>> ELSE <<>>,
     n_obs |-> 100 + Len(vars),
     auc |-> Fin(900),
     typical_ci_width |-> Fin(300),
     youden_threshold |-> Fin(500)]

\* subsets_to_fit: every non-empty combination, by size
AllModels(withVcov) ==
    << FittedModel("antidepressants", <<"antidepressants">>, withVcov),
       FittedModel("depression", <<"depression">>, withVcov),
       FittedModel("work_disability_months", <<"work_disability_months">>, withVcov),
       FittedModel("antidepressants_depression",
                   <<"antidepressants", "depression">>, withVcov),
       FittedModel("antidepressants_work_disability_months",
                   <<"antidepressants", "work_disability_months">>, withVcov),
       FittedModel("depression_work_disability_months",
                   <<"depression", "work_disability_months">>, withVcov),
       FittedModel("antidepressants_depression_work_disability_months",
                   <<"antidepressants", "depression", "work_disability_months">>,
                   withVcov) >>

\* an export in which the fitting loop skipped combinations (too few cases),
\* and whose variable lists are not in registry order
SomeModels ==
    << FittedModel("antidepressants_depression_work_disability_months",
                   <<"work_disability_months", "depression", "antidepressants">>, TRUE),
       FittedModel("antidepressants", <<"antidepressants">>, TRUE),
       FittedModel("antidepressants_depression",
                   <<"depression", "antidepressants">>, TRUE) >>

PrevalenceInfos ==
    { [sample_prevalence |-> Fin(850), default_target_prevalence |-> Fin(250)],
      [sample_prevalence |-> Fin(500), default_target_prevalence |-> Fin(100)],
      [sample_prevalence |-> Fin(1000), default_target_prevalence |-> Fin(250)] }

\* web_model
Artifacts ==
    { [variables |-> Variables, models |-> m, prevalence_info |-> p] :
        m \in {AllModels(TRUE), AllModels(FALSE), SomeModels}, p \in PrevalenceInfos }

(***************************************************************************)
(* Requests                                                                 *)
(***************************************************************************)
\* what a caller may hand over for a boolean variable and for a numeric one
BooleanValues == {Null, Undefined, Str(""), Bool(TRUE), Bool(FALSE)}
NumericValues == {Null, Str(""), NaN, PInf, NInf} \cup {Fin(n) : n \in 0 .. MaxMonths}

\* a key of the form data that names no variable of the registry
ExtraKey == "patient_age"

FormDatas ==
    { [k \in VariableIds \cup {ExtraKey} |->
         IF k = "antidepressants" THEN a
         ELSE IF k = "depression" THEN d
         ELSE IF k = "work_disability_months" THEN w
         ELSE e] :
      a \in BooleanValues, d \in {Null, Bool(TRUE), Bool(FALSE)},
      w \in NumericValues, e \in {Undefined, Bool(TRUE)} }

\* the target_prevalence element: absent, or present with a value
PrevalenceFields ==
    {<<>>} \cup {<<Str(text)>> : text \in {"", "0", "10", "25", "50", "100", "-1", "abc"}}

(***************************************************************************)
(* The page: form fields, results panel, handlers                           *)
(***************************************************************************)
\* getInterpretation with the thresholds on the other side: <= for <
getInterpretationInclusive(probability) ==
    IF Le(ToNumber(probability), Fin(300)) THEN "low"
    ELSE IF Le(ToNumber(probability), Fin(700)) THEN "moderate"
    ELSE "high"

\* getInterpretation(probability).level
getInterpretation(probability) ==
    IF Lt(ToNumber(probability), Fin(300)) THEN "low"
    ELSE IF Lt(ToNumber(probability), Fin(700)) THEN "moderate"
    ELSE "high"

\* collectFormData(): radios maps each boolean variable to the value of its
\* checked radio button ("" when none is checked), numericField is the value
\* of the input element of the numeric variable
collectFormData(data, radios, numericField) ==
    LET boolean == {i \in 1 .. Len(data.variables) : data.variables[i].type = "boolean"}
        numeric == {i \in 1 .. Len(data.variables) : data.variables[i].type = "numeric"}
    IN [id \in {data.variables[i].id : i \in boolean \cup numeric} |->
          IF \E i \in boolean : data.variables[i].id = id
          THEN (IF radios[id] = "yes" THEN Bool(TRUE)
                ELSE IF radios[id] = "no" THEN Bool(FALSE)
                ELSE Null)
          ELSE (IF numericField # Str("") THEN parseFloat(numericField) ELSE Null)]

\* displayResults that writes the panel and leaves it hidden
displayResultsHidden(result, language) ==
    [display |-> "none",
     shown |-> <<[probability |-> result.probability,
                  level |-> getInterpretation(result.probability),
                  reliability |-> result.uncertaintyWarnings[1].severity,
                  modelCIWidth |-> result.modelCIWidth,
                  selectedModel |-> result.selectedModel,
                  language |-> language]>>]

\* displayResults(result): the content written into the results panel, which
\* is made visible
displayResults(result, language) ==
    [display |-> "block",
     shown |-> <<[probability |-> result.probability,
                  level |-> getInterpretation(result.probability),
                  reliability |-> result.uncertaintyWarnings[1].severity,
                  modelCIWidth |-> result.modelCIWidth,
                  selectedModel |-> result.selectedModel,
                  language |-> language]>>]

\* modelData is the global of that name and currentLanguage the language of
\* the page; formData, prevalenceField and outcome are the form data, the
\* value of the target_prevalence element and the outcome of the latest call
\* of calculateProbability; radios, numericField and results are the form
\* fields and the results panel, timers the pending debounce timers and
\* handler the handler that ran last; pc is the position of the page (or of
\* the caller); argument and returned are the argument and the return value
\* of a direct call of checkUncertaintyWarnings or getInterpretation
VARIABLES modelData, formData, prevalenceField, outcome, pc,
          radios, numericField, results, currentLanguage, timers, handler,
          argument, returned

vars == <<modelData, formData, prevalenceField, outcome, pc,
          radios, numericField, results, currentLanguage, timers, handler,
          argument, returned>>

\* the registry of the page: one radio group and the numeric field
PageVariables == <<Variables[1], Variables[3]>>

\* the radio groups of the page
BooleanIds ==
    {PageVariables[i].id :
       i \in {j \in 1 .. Len(PageVariables) : PageVariables[j].type = "boolean"}}

\* the texts the model types into the numeric field and the prevalence field
NumericTexts == {Str(""), Str("0"), Str(ToString(MaxMonths))}
PrevalenceTexts == {Str("25"), Str("50")}

\* the artifacts the page is served with: a complete export, and one in which
\* the fitting loop skipped the model of the numeric variable alone
PageArtifacts ==
    { [variables |-> PageVariables,
       models |-> << FittedModel("antidepressants", <<"antidepressants">>, TRUE),
                     FittedModel("work_disability_months",
                                 <<"work_disability_months">>, TRUE),
                     FittedModel("antidepressants_work_disability_months",
                                 <<"antidepressants", "work_disability_months">>,
                                 TRUE) >>,
       prevalence_info |-> [sample_prevalence |-> Fin(850),
                            default_target_prevalence |-> Fin(250)]],
      [variables |-> PageVariables,
       models |-> << FittedModel("antidepressants_work_disability_months",
                                 <<"antidepressants", "work_disability_months">>,
                                 TRUE),
                     FittedModel("antidepressants", <<"antidepressants">>, TRUE) >>,
       prevalence_info |-> [sample_prevalence |-> Fin(500),
                            default_target_prevalence |-> Fin(100)]] }

\* the listeners registered whether or not loadModel() returned true
RegisteredWhateverLoaded == pc \in {"ready", "failed"}

\* the DOMContentLoaded handler has gone past if (!loaded) return and has
\* registered the listeners
Registered == pc = "ready"

NoHandler == [name |-> "", alerts |-> <<>>, threw |-> FALSE]

\* the page as the browser has built it when DOMContentLoaded fires
Init ==
    /\ modelData = <<>>
    /\ formData = [k \in {} |-> Null]
    /\ prevalenceField = <<Str("25")>>
    /\ outcome = <<>>
    /\ pc = "loading"
    /\ radios = [id \in BooleanIds |-> ""]
    /\ numericField = Str("")
    /\ results = [display |-> "none", shown |-> <<>>]
    /\ currentLanguage = "fr"
    /\ timers = [numeric |-> FALSE, prevalence |-> FALSE]
    /\ handler = NoHandler
    /\ argument = <<>>
    /\ returned = <<>>

\* LoadModel run again on a page that has its artifact
LoadModelAnyTime ==
    /\ pc \in {"loading", "ready"}
    /\ \E a \in PageArtifacts : modelData' = <<a>>
    /\ pc' = "ready"
    /\ handler' = [name |-> "loadModel", alerts |-> <<>>, threw |-> FALSE]
    /\ UNCHANGED <<argument, returned, formData, prevalenceField, outcome, radios,
                   numericField, results, currentLanguage, timers>>

\* loadModel() returns true and the DOMContentLoaded handler registers the
\* listeners
LoadModel ==
    /\ pc = "loading"
    /\ \E a \in PageArtifacts : modelData' = <<a>>
    /\ pc' = "ready"
    /\ handler' = [name |-> "loadModel", alerts |-> <<>>, threw |-> FALSE]
    /\ UNCHANGED <<argument, returned, formData, prevalenceField, outcome, radios, numericField,
                   results, currentLanguage, timers>>

\* fetch or response.json() rejects: loadModel() alerts and returns false,
\* the handler returns before registering anything
LoadModelFails ==
    /\ pc = "loading"
    /\ pc' = "failed"
    /\ handler' = [name |-> "loadModel", alerts |-> <<"Error loading model">>,
                   threw |-> FALSE]
    /\ UNCHANGED <<argument, returned, modelData, formData, prevalenceField, outcome, radios,
                   numericField, results, currentLanguage, timers>>

\* the body of autoCalculate() on the fields as they will be after the event
\* (r, n, p) and in language lang
\* AutoCalculate with a calculation that reads the language of the page: in
\* English it takes the target prevalence for 50 %
AutoCalculateInLanguage(r, n, p, lang) ==
    IF modelData = <<>>
    THEN /\ handler' = [name |-> "autoCalculate", alerts |-> <<>>, threw |-> FALSE]
         /\ UNCHANGED <<formData, outcome, results>>
    ELSE /\ formData' = collectFormData(modelData[1], r, n)
         /\ outcome' = <<calculateProbability(modelData, formData',
                             IF lang = "en" THEN <<Str("50")>> ELSE p)>>
         /\ results' = IF outcome'[1].threw THEN results
                       ELSE IF outcome'[1].ret # <<>>
                            THEN displayResults(outcome'[1].ret[1], lang)
                       ELSE [results EXCEPT !.display = "none"]
         /\ handler' = [name |-> "autoCalculate", alerts |-> outcome'[1].alerts,
                        threw |-> FALSE]

\* (with modelData null, collectFormData throws on modelData.variables and
\* the catch of autoCalculate ends the handler)
AutoCalculate(r, n, p, lang) ==
    IF modelData = <<>>
    THEN /\ handler' = [name |-> "autoCalculate", alerts |-> <<>>, threw |-> FALSE]
         /\ UNCHANGED <<formData, outcome, results>>
    ELSE /\ formData' = collectFormData(modelData[1], r, n)
         /\ outcome' = <<calculateProbability(modelData, formData', p)>>
         /\ results' = IF outcome'[1].threw THEN results
                       ELSE IF outcome'[1].ret # <<>>
                            THEN displayResults(outcome'[1].ret[1], lang)
                       ELSE [results EXCEPT !.display = "none"]
         /\ handler' = [name |-> "autoCalculate", alerts |-> outcome'[1].alerts,
                        threw |-> FALSE]

\* the user checks a radio button; its change listener runs autoCalculate()
RadioChange ==
    /\ \E id \in BooleanIds, value \in {"yes", "no", "unknown"} :
         /\ radios[id] # value
         /\ radios' = [radios EXCEPT ![id] = value]
    /\ IF Registered
       THEN AutoCalculate(radios', numericField, prevalenceField, currentLanguage)
       ELSE UNCHANGED <<formData, outcome, results, handler>>
    /\ UNCHANGED <<argument, returned, modelData, prevalenceField, pc, numericField, currentLanguage, timers>>

\* the user edits the numeric field; the debounced listener restarts its timer
NumericInput ==
    /\ \E text \in NumericTexts : text # numericField /\ numericField' = text
    /\ timers' = IF Registered THEN [timers EXCEPT !.numeric = TRUE] ELSE timers
    /\ UNCHANGED <<argument, returned, modelData, formData, prevalenceField, outcome, pc, radios,
                   results, currentLanguage, handler>>

\* the user edits the prevalence field; the debounced listener restarts its timer
PrevalenceInput ==
    /\ \E text \in PrevalenceTexts :
         prevalenceField # <<text>> /\ prevalenceField' = <<text>>
    /\ timers' = IF Registered THEN [timers EXCEPT !.prevalence = TRUE] ELSE timers
    /\ UNCHANGED <<argument, returned, modelData, formData, outcome, pc, radios, numericField,
                   results, currentLanguage, handler>>

\* a debounce timer expires and its callback runs autoCalculate()
TimerFires ==
    /\ \E which \in {"numeric", "prevalence"} :
         /\ timers[which]
         /\ timers' = [timers EXCEPT ![which] = FALSE]
    /\ AutoCalculate(radios, numericField, prevalenceField, currentLanguage)
    /\ UNCHANGED <<argument, returned, modelData, prevalenceField, pc, radios, numericField, currentLanguage>>

\* the user picks a language: updateLanguage(lang), then autoCalculate() when
\* the panel is visible
LanguageChange ==
    /\ \E lang \in {"fr", "en"} : lang # currentLanguage /\ currentLanguage' = lang
    /\ IF Registered /\ results.display = "block"
       THEN AutoCalculate(radios, numericField, prevalenceField, currentLanguage')
       ELSE UNCHANGED <<formData, outcome, results, handler>>
    /\ UNCHANGED <<argument, returned, modelData, prevalenceField, pc, radios, numericField, timers>>

\* the form is submitted: handleSubmit(event) (with modelData null,
\* collectFormData throws on modelData.variables and nothing catches it)
Submit ==
    /\ Registered
    /\ IF modelData = <<>>
       THEN /\ handler' = [name |-> "handleSubmit", alerts |-> <<>>, threw |-> TRUE]
            /\ UNCHANGED <<formData, outcome, results>>
       ELSE /\ formData' = collectFormData(modelData[1], radios, numericField)
            /\ outcome' = <<calculateProbability(modelData, formData', prevalenceField)>>
            /\ results' = IF outcome'[1].ret # <<>>
                          THEN displayResults(outcome'[1].ret[1], currentLanguage)
                          ELSE results
            /\ handler' = [name |-> "handleSubmit",
                           alerts |-> IF outcome'[1].threw \/ outcome'[1].ret # <<>>
                                      THEN outcome'[1].alerts
                                      ELSE outcome'[1].alerts
                                           \o <<"Error calculating probability">>,
                           threw |-> outcome'[1].threw]
    /\ UNCHANGED <<argument, returned, modelData, prevalenceField, pc, radios, numericField,
                   currentLanguage, timers>>

Next ==
    \/ LoadModel
    \/ LoadModelFails
    \/ RadioChange
    \/ NumericInput
    \/ PrevalenceInput
    \/ TimerFires
    \/ LanguageChange
    \/ Submit

Spec == Init /\ [][Next]_vars

\* direct calls of calculateProbability, one per behaviour
InitCalc ==
    /\ modelData \in {<<>>} \cup {<<a>> : a \in Artifacts}
    /\ formData \in FormDatas
    /\ prevalenceField \in PrevalenceFields
    /\ outcome = <<>>
    /\ pc = "call"
    /\ radios = [id \in BooleanIds |-> ""]
    /\ numericField = Str("")
    /\ results = [display |-> "none", shown |-> <<>>]
    /\ currentLanguage = "fr"
    /\ timers = [numeric |-> FALSE, prevalence |-> FALSE]
    /\ handler = NoHandler
    /\ argument = <<>>
    /\ returned = <<>>

Calculate ==
    /\ pc = "call"
    /\ outcome' = <<calculateProbability(modelData, formData, prevalenceField)>>
    /\ pc' = "done"
    /\ UNCHANGED <<argument, returned, modelData, formData, prevalenceField, radios, numericField,
                   results, currentLanguage, timers, handler>>

NextCalc == Calculate

SpecCalc == InitCalc /\ [][NextCalc]_vars

\* a model whose coefficients lack one term its covariance matrix has
WithoutCoefficient(model, key) ==
    [model EXCEPT !.coefficients = SelectSeq(@, LAMBDA e : e.k # key)]

\* a model whose covariance matrix lacks the row of one coefficient
WithoutVcovRow(model, key) ==
    [model EXCEPT !.coefficient_vcov = <<SelectSeq(@[1], LAMBDA e : e.k # key)>>]

\* a model whose covariance matrix lacks one coefficient in every row
WithoutVcovColumn(model, key) ==
    [model EXCEPT !.coefficient_vcov =
        <<[i \in 1 .. Len(@[1]) |->
             [k |-> @[1][i].k, v |-> SelectSeq(@[1][i].v, LAMBDA e : e.k # key)]]>>]

\* a model that names a variable the registry does not have
WithUnregisteredVariable(model) ==
    [model EXCEPT !.variables = @ \o <<ExtraKey>>]

\* model.json files the page may be served with that the export would not
\* have written: loadModel keeps whatever response.json() returns.  In each,
\* every model that has the first variable of the registry is damaged.
MalformedArtifacts ==
    LET id == Variables[1].id
        Damaged(Damage(_)) ==
            [i \in 1 .. Len(AllModels(TRUE)) |->
                IF id \in SetOf(AllModels(TRUE)[i].variables)
                THEN Damage(AllModels(TRUE)[i])
                ELSE AllModels(TRUE)[i]]
        info == [sample_prevalence |-> Fin(850), default_target_prevalence |-> Fin(250)]
    IN { [variables |-> Variables, models |-> m, prevalence_info |-> info] :
           m \in { Damaged(LAMBDA x : WithoutCoefficient(x, TermOf(id))),
                   Damaged(LAMBDA x : WithoutVcovRow(x, TermOf(id))),
                   Damaged(LAMBDA x : WithoutVcovColumn(x, TermOf(id))),
                   Damaged(WithUnregisteredVariable) } }

\* direct calls of calculateProbability on a malformed artifact
InitMalformed ==
    /\ modelData \in {<<a>> : a \in MalformedArtifacts}
    /\ formData \in FormDatas
    /\ prevalenceField \in {<<>>, <<Str("25")>>}
    /\ outcome = <<>>
    /\ pc = "call"
    /\ radios = [id \in BooleanIds |-> ""]
    /\ numericField = Str("")
    /\ results = [display |-> "none", shown |-> <<>>]
    /\ currentLanguage = "fr"
    /\ timers = [numeric |-> FALSE, prevalence |-> FALSE]
    /\ handler = NoHandler
    /\ argument = <<>>
    /\ returned = <<>>

SpecMalformed == InitMalformed /\ [][NextCalc]_vars

\* what a caller may pass for a width or for a probability: the numbers from
\* -0.05 to 1.05 in thousandths, the special numbers, null and undefined
Arguments ==
    {Fin(n) : n \in -50 .. SCALE + 50} \cup {NaN, PInf, NInf, Null, Undefined}

\* direct calls of checkUncertaintyWarnings and of getInterpretation, one per
\* behaviour
InitClassify ==
    /\ modelData = <<>>
    /\ formData = [k \in {} |-> Null]
    /\ prevalenceField = <<>>
    /\ outcome = <<>>
    /\ pc = "call"
    /\ radios = [id \in BooleanIds |-> ""]
    /\ numericField = Str("")
    /\ results = [display |-> "none", shown |-> <<>>]
    /\ currentLanguage = "fr"
    /\ timers = [numeric |-> FALSE, prevalence |-> FALSE]
    /\ handler = NoHandler
    /\ argument \in {<<a>> : a \in Arguments}
    /\ returned = <<>>

CheckUncertaintyWarnings ==
    /\ pc = "call"
    /\ returned' = <<[fn |-> "checkUncertaintyWarnings",
                      value |-> checkUncertaintyWarnings(argument[1])]>>
    /\ pc' = "done"
    /\ UNCHANGED <<argument, modelData, formData, prevalenceField, outcome, radios,
                   numericField, results, currentLanguage, timers, handler>>

GetInterpretation ==
    /\ pc = "call"
    /\ returned' = <<[fn |-> "getInterpretation",
                      value |-> getInterpretation(argument[1])]>>
    /\ pc' = "done"
    /\ UNCHANGED <<argument, modelData, formData, prevalenceField, outcome, radios,
                   numericField, results, currentLanguage, timers, handler>>

NextClassify ==
    \/ CheckUncertaintyWarnings
    \/ GetInterpretation

SpecClassify == InitClassify /\ [][NextClassify]_vars

\* the names of subsets_to_fit
SubsetNames == {AllModels(TRUE)[i].name : i \in 1 .. Len(AllModels(TRUE))}

\* models_list after the fitting loop: fitted holds the names of the subsets
\* with enough complete cases whose fit raised no error; the loop skips the
\* others (next, or the error handler of tryCatch) and stores nothing for them
ExportedModels(fitted) ==
    SelectSeq(AllModels(TRUE), LAMBDA m : m.name \in fitted)

\* web_model as the script writes it after that loop
ExportedArtifact(fitted) ==
    [variables |-> Variables,
     models |-> ExportedModels(fitted),
     prevalence_info |-> [sample_prevalence |-> Fin(850),
                          default_target_prevalence |-> Fin(250)]]

\* requests on an exported artifact: each variable supplied or left unknown
ExportFormDatas ==
    { [k \in VariableIds \cup {ExtraKey} |->
         IF k = "antidepressants" THEN a
         ELSE IF k = "depression" THEN d
         ELSE IF k = "work_disability_months" THEN w
         ELSE Undefined] :
      a \in {Null, Bool(TRUE)}, d \in {Null, Bool(FALSE)}, w \in {Null, Fin(1)} }

\* the export script runs on some data set, then calculateProbability is
\* called on the artifact it wrote
InitExport ==
    /\ modelData \in {<<ExportedArtifact(fitted)>> : fitted \in SUBSET SubsetNames}
    /\ formData \in ExportFormDatas
    /\ prevalenceField = <<Str("25")>>
    /\ outcome = <<>>
    /\ pc = "call"
    /\ radios = [id \in BooleanIds |-> ""]
    /\ numericField = Str("")
    /\ results = [display |-> "none", shown |-> <<>>]
    /\ currentLanguage = "fr"
    /\ timers = [numeric |-> FALSE, prevalence |-> FALSE]
    /\ handler = NoHandler
    /\ argument = <<>>
    /\ returned = <<>>

SpecExport == InitExport /\ [][NextCalc]_vars

\* the largest number of calls of a debounced function in one behaviour
MaxCalls == 3

\* debounce(func, wait) on its own.  timers holds the variable timeout of the
\* closure (the id setTimeout returned last, 0 while undefined) and the timers
\* the browser has pending, each with the arguments of the call that set it
\* and whether wait milliseconds have passed since; argument lists the
\* arguments of the calls made so far and returned the runs of func, each with
\* its arguments and the number of calls made before it
InitDebounce ==
    /\ modelData = <<>>
    /\ formData = [k \in {} |-> Null]
    /\ prevalenceField = <<>>
    /\ outcome = <<>>
    /\ pc = "ready"
    /\ radios = [id \in BooleanIds |-> ""]
    /\ numericField = Str("")
    /\ results = [display |-> "none", shown |-> <<>>]
    /\ currentLanguage = "fr"
    /\ timers = [timeout |-> 0, pending |-> {}]
    /\ handler = NoHandler
    /\ argument = <<>>
    /\ returned = <<>>

\* DebouncedCall without clearTimeout(timeout)
DebouncedCallNoClear ==
    /\ Len(argument) < MaxCalls
    /\ \E args \in NumericTexts :
         /\ timers' = [timeout |-> Len(argument) + 1,
                       pending |-> timers.pending
                                   \cup {[id |-> Len(argument) + 1, args |-> args,
                                          due |-> FALSE]}]
         /\ argument' = Append(argument, args)
    /\ UNCHANGED <<modelData, formData, prevalenceField, outcome, pc, radios,
                   numericField, results, currentLanguage, handler, returned>>

\* a call of the function debounce returned: clearTimeout(timeout), then
\* timeout = setTimeout(() => func.apply(this, args), wait)
DebouncedCall ==
    /\ Len(argument) < MaxCalls
    /\ \E args \in NumericTexts :
         /\ timers' = [timeout |-> Len(argument) + 1,
                       pending |-> {t \in timers.pending : t.id # timers.timeout}
                                   \cup {[id |-> Len(argument) + 1, args |-> args,
                                          due |-> FALSE]}]
         /\ argument' = Append(argument, args)
    /\ UNCHANGED <<modelData, formData, prevalenceField, outcome, pc, radios,
                   numericField, results, currentLanguage, handler, returned>>

\* wait milliseconds have passed since a pending timer was set
WaitElapses ==
    /\ \E t \in timers.pending :
         /\ ~t.due
         /\ timers' = [timers EXCEPT
                          !.pending = (@ \ {t}) \cup {[t EXCEPT !.due = TRUE]}]
    /\ UNCHANGED <<modelData, formData, prevalenceField, outcome, pc, radios,
                   numericField, results, currentLanguage, handler, argument,
                   returned>>

\* the browser runs the callback of a timer whose time has come:
\* func.apply(this, args)
TimeoutFires ==
    /\ \E t \in timers.pending :
         /\ t.due
         /\ timers' = [timers EXCEPT !.pending = @ \ {t}]
         /\ returned' = Append(returned, [args |-> t.args, after |-> Len(argument)])
    /\ UNCHANGED <<modelData, formData, prevalenceField, outcome, pc, radios,
                   numericField, results, currentLanguage, handler, argument>>

NextDebounce ==
    \/ DebouncedCall
    \/ WaitElapses
    \/ TimeoutFires

\* time passes and the browser runs the callbacks that are due
SpecDebounce ==
    /\ InitDebounce
    /\ [][NextDebounce]_vars
    /\ WF_vars(WaitElapses)
    /\ WF_vars(TimeoutFires)

(***************************************************************************)
(* Properties                                                               *)
(***************************************************************************)
\* a call of calculateProbability on a loaded artifact has returned
Called == pc = "done" /\ modelData # <<>> /\ outcome # <<>>

\* the call returned a result object
Computed == Called /\ outcome[1].ret # <<>>

Known == KnownFrom(1, modelData[1].variables, formData)
Models == modelData[1].models
Res == outcome[1].ret[1]

\* the model of the artifact with the given name
ModelNamed(name) == Models[CHOOSE i \in 1 .. Len(Models) : Models[i].name = name]

\* the type the registry gives a variable id
TypeOf(id) ==
    LET vs == modelData[1].variables
    IN vs[CHOOSE i \in 1 .. Len(vs) : vs[i].id = id].type

\* the orderings of the members of a list without repetitions
Orderings(seq) ==
    {o \in [1 .. Len(seq) -> SetOf(seq)] : SetOf(o) = SetOf(seq)}

\* some model of the artifact has exactly the given variable set
HasExactModel(known) ==
    \E i \in 1 .. Len(Models) : SetOf(Models[i].variables) = SetOf(known)

\* C1: whenever the known variable ids are non-empty and are, as a set, the
\* variable set of a model of the artifact, findBestModel returns that model,
\* in whatever order the known ids are listed.
C1_ExactModelSelected ==
    Called =>
        \A i \in 1 .. Len(Models) :
            (Known # <<>> /\ SetOf(Models[i].variables) = SetOf(Known)) =>
                \A ks \in Orderings(Known) :
                    /\ ~findBestModel(modelData[1], ks).threw
                    /\ findBestModel(modelData[1], ks).ret[1].name = Models[i].name
                    /\ findBestModel(modelData[1], ks).ret[1].info = Models[i]

\* C1 witness: two known variables, listed by the matching model in the
\* opposite order, and the call returned the result of that model
C1_Witness ==
    /\ Computed
    /\ Models = SomeModels
    /\ Known = <<"antidepressants", "depression">>
    /\ Res.selectedModel = "antidepressants_depression"

C3_EmptyRequestRejectedFirst ==
    Called =>
        ((\A i \in 1 .. Len(modelData[1].variables) :
             Field(formData, modelData[1].variables[i].id)
                 \in {Null, Undefined, Str("")})
         => /\ outcome[1].selects = 0
            /\ outcome[1].ret = <<>>
            /\ outcome[1].alerts = <<>>
            /\ outcome[1].stage = "empty")

\* C3 witness: an empty request that uses the empty string and undefined, and
\* carries a key that is no registry variable
C3_Witness ==
    /\ Called
    /\ outcome[1].stage = "empty"
    /\ formData["antidepressants"] = Str("")
    /\ formData["work_disability_months"] = Str("")
    /\ formData[ExtraKey] = Bool(TRUE)

\* C4: no handler reports an empty request as an error: after handleSubmit or
\* autoCalculate ran on a form with no known variable, no alert was raised.
C4_EmptyRequestIsNoError ==
    (/\ handler.name \in {"handleSubmit", "autoCalculate"}
     /\ outcome # <<>>
     /\ outcome[1].stage = "empty")
    => handler.alerts = <<>>

RECURSIVE SumOfTerms(_, _, _)
\* acc plus what the rounds i .. Len(terms) added
SumOfTerms(terms, i, acc) ==
    IF i > Len(terms) THEN acc
    ELSE SumOfTerms(terms, i + 1,
                    IF terms[i].add = <<>> THEN acc ELSE Add(acc, terms[i].add[1]))

\* C5: in a result, each boolean variable of the selected model added the
\* coefficient of its term id + "TRUE" when its value is true and nothing
\* otherwise, and the linear predictor is the intercept plus what was added.
C5_BooleanTerms ==
    Computed =>
        LET model == ModelNamed(Res.selectedModel)
            terms == outcome[1].terms
        IN /\ Len(terms) = Len(model.variables)
           /\ \A i \in 1 .. Len(model.variables) :
                 TypeOf(model.variables[i]) = "boolean" =>
                    terms[i].add =
                        IF Field(formData, model.variables[i]) = Bool(TRUE)
                        THEN <<Get(model.coefficients, Term(model.variables[i], "TRUE"))>>
                        ELSE <<>>
           /\ Res.linearPredictor =
                 SumOfTerms(terms, 1, Get(model.coefficients, Intercept))

\* C5 witness: a model with a boolean answered yes and a boolean answered no
C5_Witness ==
    /\ Computed
    /\ Res.selectedModel = "antidepressants_depression"
    /\ formData["antidepressants"] = Bool(TRUE)
    /\ formData["depression"] = Bool(FALSE)
    /\ Res.linearPredictor = Fin(-2200 + 1500)

\* C6: in a result, each numeric variable of the selected model added
\* coefficient * value when its value is a finite number, and nothing when the
\* value is NaN, Infinity or -Infinity.
C6_NumericTerms ==
    Computed =>
        LET model == ModelNamed(Res.selectedModel)
            terms == outcome[1].terms
        IN \A i \in 1 .. Len(model.variables) :
              TypeOf(model.variables[i]) = "numeric" =>
                 terms[i].add =
                     IF IsFin(Field(formData, model.variables[i]))
                     THEN <<Mul(Get(model.coefficients, Term(model.variables[i], "")),
                                Field(formData, model.variables[i]))>>
                     ELSE <<>>

\* ln(p / (1 - p))
Logit(p) == Log(DivFix(p, Sub(Fin(SCALE), p)))

\* 1 / (1 + e^(-x))
Logistic(x) == DivFix(Fin(SCALE), Add(Fin(SCALE), Exp(Neg(x))))

\* C7: in a result, the adjusted linear predictor is the raw one minus the
\* logit of the sample prevalence of the artifact plus the logit of the target
\* prevalence, and the probability is the logistic function of it.
C7_PrevalenceAdjustment ==
    Computed =>
        /\ Res.samplePrevalence = modelData[1].prevalence_info.sample_prevalence
        /\ Res.adjustedLinearPredictor =
              Add(Sub(Res.linearPredictor, Logit(Res.samplePrevalence)),
                  Logit(Res.targetPrevalence))
        /\ Res.probability = Logistic(Res.adjustedLinearPredictor)

\* C7 witness: a result whose target prevalence differs from the sample
\* prevalence, both inside (0,1)
C7_Witness ==
    /\ Computed
    /\ Res.samplePrevalence = Fin(850)
    /\ Res.targetPrevalence = Fin(250)
    /\ IsFin(Res.adjustedLinearPredictor)
    /\ Res.adjustedLinearPredictor # Res.linearPredictor
    /\ Lt(Fin(0), Res.probability) /\ Lt(Res.probability, Fin(SCALE))

\* p is a number strictly between 0 and 1
InsideUnit(p) == IsFin(p) /\ 0 < p.n /\ p.n < SCALE

\* C8: a call whose target prevalence or whose sample prevalence is not
\* strictly inside (0,1) returns no result.
C8_InvalidPrevalenceRejected ==
    Called =>
        ((\/ ~InsideUnit(TargetPrevalence(prevalenceField))
          \/ ~InsideUnit(modelData[1].prevalence_info.sample_prevalence))
         => outcome[1].ret = <<>>)

\* C9: when no target prevalence is supplied (the page has no
\* target_prevalence element), the result uses the default target prevalence
\* of the artifact.
C9_DefaultTargetPrevalence ==
    (Computed /\ prevalenceField = <<>>) =>
        Res.targetPrevalence = modelData[1].prevalence_info.default_target_prevalence

\* C10: in every result, confidenceInterval.lower <= probability and
\* probability <= confidenceInterval.upper, as JavaScript compares them.
C10_IntervalContainsProbability ==
    Computed =>
        /\ Le(ToNumber(Res.confidenceInterval.lower), ToNumber(Res.probability))
        /\ Le(ToNumber(Res.probability), ToNumber(Res.confidenceInterval.upper))

\* every number the call was given is finite: the values of the form data,
\* the target prevalence and the sample prevalence (the coefficients of the
\* artifact are finite)
FiniteInputs ==
    /\ \A id \in DOMAIN formData :
          formData[id].t = "number" => IsFin(formData[id])
    /\ IsFin(TargetPrevalence(prevalenceField))
    /\ IsFin(ToNumber(modelData[1].prevalence_info.sample_prevalence))

\* C11: in every result computed from finite inputs, the probability is
\* strictly greater than 0 and strictly less than 1.
C11_ProbabilityInsideUnit ==
    (Computed /\ FiniteInputs) => InsideUnit(Res.probability)

\* checkUncertaintyWarnings has returned from a direct call
Warned == returned # <<>> /\ returned[1].fn = "checkUncertaintyWarnings"

\* getInterpretation has returned from a direct call
Interpreted == returned # <<>> /\ returned[1].fn = "getInterpretation"

\* the tier of a width that is a number, by the thresholds from the highest
\* down
TierOf(w) ==
    IF w = PInf \/ (IsFin(w) /\ w.n >= 400) THEN "high"
    ELSE IF IsFin(w) /\ w.n >= 200 THEN "medium"
    ELSE IF IsFin(w) /\ w.n >= 100 THEN "low"
    ELSE "very_low"

C13_ExactlyOneTier ==
    Warned =>
        /\ Len(returned[1].value) = 1
        /\ returned[1].value[1].severity \in {"high", "medium", "low", "very_low"}
        /\ \E i \in 1 .. Len(UNCERTAINTY_LEVELS) :
              UNCERTAINTY_LEVELS[i].severity = returned[1].value[1].severity

\* C13 witness: a width no threshold accepts (undefined) got the lowest tier
C13_Witness ==
    /\ Warned
    /\ argument[1] = Undefined
    /\ Len(returned[1].value) = 1
    /\ returned[1].value[1].severity = "very_low"

YoudenLevel(probability, threshold) ==
    IF Lt(probability, Sub(threshold, Fin(100))) THEN "low"
    ELSE IF Lt(Add(threshold, Fin(100)), probability) THEN "high"
    ELSE "moderate"

\* C20: the level the results panel shows for a result is the level of its
\* probability by the Youden threshold of the selected model.
C20_YoudenInterpretation ==
    (/\ results.display = "block"
     /\ results.shown # <<>>
     /\ outcome # <<>>
     /\ outcome[1].ret # <<>>
     /\ results.shown[1].probability = outcome[1].ret[1].probability
     /\ IsFin(outcome[1].ret[1].probability))
    => results.shown[1].level =
          YoudenLevel(outcome[1].ret[1].probability,
                      outcome[1].ret[1].youdenThreshold)

\* C14: in a result, when the selected model has no covariance matrix the
\* interval is the one calculateConfidenceInterval returns for it, with the
\* typical_ci_width of the model as width and a method other than "delta";
\* when the model has a covariance matrix the method is "delta"; either way
\* the result carries the method and the width calculateConfidenceInterval
\* returned.
C14_FallbackWidthAndMethod ==
    Computed =>
        LET model == ModelNamed(Res.selectedModel)
            ciResult == calculateConfidenceInterval(model, formData,
                                                    Res.adjustedLinearPredictor)
        IN /\ model.coefficient_vcov = <<>> =>
                 /\ ciResult.width = model.typical_ci_width
                 /\ ciResult.method # "delta"
           /\ model.coefficient_vcov # <<>> => ciResult.method = "delta"
           /\ Res.confidenceInterval.method = ciResult.method
           /\ Res.confidenceInterval.width = ciResult.width
           /\ Res.modelCIWidth = ciResult.width

\* C14 witness: a result computed with a model that has no covariance matrix
C14_Witness ==
    /\ Computed
    /\ ModelNamed(Res.selectedModel).coefficient_vcov = <<>>
    /\ Res.confidenceInterval.method = "legacy"
    /\ Res.confidenceInterval.width = Fin(300)

\* the keys of an object, as a set
Keys(obj) == {obj[i].k : i \in 1 .. Len(obj)}

\* the coefficient keys of the model and the keys of its covariance matrix
\* (of its rows, or inside a row) disagree
KeysDisagree(model) ==
    /\ model.coefficient_vcov # <<>>
    /\ \/ Keys(model.coefficient_vcov[1]) # Keys(model.coefficients)
       \/ \E i \in 1 .. Len(model.coefficient_vcov[1]) :
             Keys(model.coefficient_vcov[1][i].v) # Keys(model.coefficients)
       \/ \E i \in 1 .. Len(model.variables) :
             /\ model.variables[i] \in VariableIds
             /\ ~Has(model.coefficients, TermOf(model.variables[i]))

\* the model names a variable the registry does not have
NamesUnregistered(model) ==
    \E i \in 1 .. Len(model.variables) :
        \A j \in 1 .. Len(modelData[1].variables) :
            modelData[1].variables[j].id # model.variables[i]

\* C15: a call with at least one known variable returns no result, and ends
\* in an error, when the keys of the coefficients and of the covariance matrix
\* of the model on the known set disagree, or when some model of the artifact
\* names a variable the registry does not have.
C15_MalformedArtifactIsFatal ==
    (/\ Called
     /\ Known # <<>>
     /\ \/ \E i \in 1 .. Len(Models) :
              SetOf(Models[i].variables) = SetOf(Known) /\ KeysDisagree(Models[i])
        \/ \E i \in 1 .. Len(Models) : NamesUnregistered(Models[i]))
    => /\ outcome[1].ret = <<>>
       /\ outcome[1].threw \/ outcome[1].alerts # <<>>

\* C16: while the artifact is being fetched no handler has run and no
\* calculation has started; after a failed load modelData is still null, no
\* listener runs whatever the user does (loadModel is the last handler that
\* ran, no timer is pending), nothing was calculated and the results panel
\* stays hidden; a calculation only ever happened on a loaded artifact.
C16_NoCalculationWithoutModel ==
    /\ pc = "loading" =>
          /\ handler = NoHandler
          /\ outcome = <<>>
          /\ results.display = "none"
          /\ ~timers.numeric /\ ~timers.prevalence
    /\ pc = "failed" =>
          /\ modelData = <<>>
          /\ handler.name = "loadModel" /\ handler.alerts # <<>>
          /\ outcome = <<>>
          /\ results.display = "none" /\ results.shown = <<>>
          /\ ~timers.numeric /\ ~timers.prevalence
    /\ outcome # <<>> => (pc = "ready" /\ modelData # <<>>)
    /\ handler.name \in {"handleSubmit", "autoCalculate"} => modelData # <<>>

\* C16 witness: the load failed and the user then checked a radio button,
\* typed into both fields and changed the language
C16_Witness ==
    /\ pc = "failed"
    /\ radios["antidepressants"] = "yes"
    /\ numericField # Str("")
    /\ prevalenceField = <<Str("50")>>
    /\ currentLanguage = "en"

\* C17: once loaded, modelData is never assigned again and never changes,
\* whatever handler runs; and the form data a handler leaves behind is the
\* object collectFormData returned, which calculateProbability did not change.
C17_ArtifactNeverMutated ==
    [][ /\ modelData # <<>> => modelData' = modelData
        /\ (modelData # <<>> /\ (formData' # formData \/ outcome' # outcome)) =>
              formData' = collectFormData(modelData'[1], radios', numericField')
      ]_vars

\* C17 witness: after the load, a radio change, a numeric input with its
\* timer, a submission and a language change have all run on the artifact
C17_Witness ==
    /\ modelData # <<>>
    /\ outcome # <<>> /\ outcome[1].ret # <<>>
    /\ radios["antidepressants"] = "yes"
    /\ numericField = Str("0")
    /\ ~timers.numeric
    /\ currentLanguage = "en"
    /\ handler.name = "handleSubmit"
    /\ results.display = "block"

C21_WarningsByUnknownCount ==
    Computed =>
        LET unknown == Len(Res.unknownVariables)
            severity == Res.uncertaintyWarnings[1].severity
        IN /\ unknown > 4 => severity = "high"
           /\ unknown \in 3 .. 4 => severity = "medium"
           /\ unknown \in 1 .. 2 => severity = "low"

\* C22: an artifact written by the export script has exactly one model for
\* every non-empty subset of the variables, and no call with a known variable
\* on such an artifact ends in the failure of findBestModel.
C22_ExportCoversEverySubset ==
    Called =>
        /\ \A S \in (SUBSET VariableIds) \ {{}} :
              Cardinality({i \in 1 .. Len(Models) : SetOf(Models[i].variables) = S}) = 1
        /\ Known # <<>> => outcome[1].stage # "no_model"

RECURSIVE DotProduct(_, _, _)
\* the sum over the terms i .. Len(coefficients) of design[i] * coefficient
DotProduct(design, coefficients, i) ==
    IF i > Len(coefficients) THEN Fin(0)
    ELSE Add(Mul(coefficients[i].v, design[i]),
             DotProduct(design, coefficients, i + 1))

\* C23: in a result, the design vector calculateConfidenceInterval builds for
\* the selected model and the supplied values has 1 for the intercept and,
\* for the term of each variable of the model, the multiplier the loop of
\* calculateProbability gave that term (1 when it added the coefficient of a
\* boolean, the number it multiplied the coefficient of a numeric variable by,
\* 0 when it added nothing), and the linear predictor is the dot product of
\* the design vector with the coefficients.
C23_DesignVectorMatchesPredictor ==
    Computed =>
        LET model == ModelNamed(Res.selectedModel)
            coefficients == model.coefficients
            design == DesignVector(coefficients, formData)
            terms == outcome[1].terms
            At(key) == CHOOSE i \in 1 .. Len(coefficients) : coefficients[i].k = key
        IN /\ Len(design) = Len(coefficients)
           /\ design[At(Intercept)] = Fin(1)
           /\ \A j \in 1 .. Len(model.variables) :
                 LET id == model.variables[j]
                     key == Term(id, IF TypeOf(id) = "boolean" THEN "TRUE" ELSE "")
                 IN IF terms[j].add = <<>> THEN design[At(key)] = Fin(0)
                    ELSE IF TypeOf(id) = "boolean" THEN design[At(key)] = Fin(1)
                    ELSE /\ design[At(key)] = parseFloat(Field(formData, id))
                         /\ terms[j].add[1] = Mul(coefficients[At(key)].v, design[At(key)])
           /\ Res.linearPredictor = DotProduct(design, coefficients, 1)

\* C23 witness: a model with a boolean answered yes, a boolean answered no and
\* a numeric variable of more than one month
C23_Witness ==
    /\ Computed
    /\ Res.selectedModel = "antidepressants_depression_work_disability_months"
    /\ formData["antidepressants"] = Bool(TRUE)
    /\ formData["depression"] = Bool(FALSE)
    /\ formData["work_disability_months"] = Fin(MaxMonths)
    /\ Res.linearPredictor = Fin(-2300 + 1500 + 500 * MaxMonths)

RECURSIVE RowForm(_, _, _, _, _)
\* the sum over j .. n of design[i] * design[j] * covariance[term_i][term_j]
RowForm(i, j, design, coefficients, vcov) ==
    IF j > Len(coefficients) THEN Fin(0)
    ELSE Add(Mul(Mul(design[i], design[j]),
                 Get(Get(vcov, coefficients[i].k), coefficients[j].k)),
             RowForm(i, j + 1, design, coefficients, vcov))

RECURSIVE BilinearForm(_, _, _, _)
\* design . covariance . design: the sum of the rows i .. n
BilinearForm(i, design, coefficients, vcov) ==
    IF i > Len(coefficients) THEN Fin(0)
    ELSE Add(RowForm(i, 1, design, coefficients, vcov),
             BilinearForm(i + 1, design, coefficients, vcov))

\* C24: for the model and the values of a result with a covariance matrix,
\* the standard error calculateConfidenceInterval returns is the square root
\* of the sum over all ordered pairs (i, j) of design[i] * design[j] *
\* covariance[term_i][term_j], and the bounds of the result are the inverse
\* logits of the adjusted linear predictor minus and plus z times it.
C24_FullBilinearVariance ==
    (Computed /\ ModelNamed(Res.selectedModel).coefficient_vcov # <<>>) =>
        LET model == ModelNamed(Res.selectedModel)
            design == DesignVector(model.coefficients, formData)
            variance == BilinearForm(1, design, model.coefficients,
                                     model.coefficient_vcov[1])
            ciResult == calculateConfidenceInterval(model, formData,
                                                    Res.adjustedLinearPredictor)
        IN /\ ciResult.se = Sqrt(variance)
           /\ Res.confidenceInterval.lower =
                 invLogit(Sub(Res.adjustedLinearPredictor, TimesZ(Sqrt(variance))))
           /\ Res.confidenceInterval.upper =
                 invLogit(Add(Res.adjustedLinearPredictor, TimesZ(Sqrt(variance))))

\* C24 witness: two active terms besides the intercept, so that six of the
\* nine pairs are off the diagonal: variance 3 * 0.040 - 6 * 0.010 = 0.060
C24_Witness ==
    /\ Computed
    /\ Res.selectedModel = "antidepressants_depression"
    /\ ModelNamed(Res.selectedModel).coefficient_vcov # <<>>
    /\ formData["antidepressants"] = Bool(TRUE)
    /\ formData["depression"] = Bool(TRUE)
    /\ calculateConfidenceInterval(ModelNamed(Res.selectedModel), formData,
                                   Res.adjustedLinearPredictor).se = Sqrt(Fin(60))

\* adjusted linear predictors other than the one of the result
OtherPredictors == {Fin(-2000), Fin(0), Fin(1500), NInf}

\* C25: for the model and the values of a result with a covariance matrix,
\* calculateConfidenceInterval returns the same standard error whatever
\* adjusted linear predictor it is given, and the bounds of the result are the
\* inverse logits of the adjusted linear predictor of the result minus and
\* plus z times that standard error.
C25_StandardErrorIgnoresShift ==
    (Computed /\ ModelNamed(Res.selectedModel).coefficient_vcov # <<>>) =>
        LET model == ModelNamed(Res.selectedModel)
            se == calculateConfidenceInterval(model, formData,
                                              Res.adjustedLinearPredictor).se
        IN /\ \A x \in OtherPredictors :
                 /\ calculateConfidenceInterval(model, formData, x).se = se
                 /\ Res.confidenceInterval.lower =
                       invLogit(Sub(Res.adjustedLinearPredictor,
                           TimesZ(calculateConfidenceInterval(model, formData, x).se)))
                 /\ Res.confidenceInterval.upper =
                       invLogit(Add(Res.adjustedLinearPredictor,
                           TimesZ(calculateConfidenceInterval(model, formData, x).se)))

\* C25 witness: a result whose prevalence shift is not zero, with a finite
\* positive standard error
C25_Witness ==
    /\ Computed
    /\ ModelNamed(Res.selectedModel).coefficient_vcov # <<>>
    /\ IsFin(Res.adjustedLinearPredictor)
    /\ Res.adjustedLinearPredictor # Res.linearPredictor
    /\ Res.adjustedLinearPredictor \notin OtherPredictors
    /\ Lt(Fin(0), calculateConfidenceInterval(ModelNamed(Res.selectedModel), formData,
                                              Res.adjustedLinearPredictor).se)
    /\ Lt(Res.confidenceInterval.lower, Res.confidenceInterval.upper)

\* the two-sided standard-normal quantile of a confidence level, in
\* millionths: qnorm((1 + level) / 2)
NormalQuantile(level) ==
    IF level = 900 THEN 1644854
    ELSE IF level = 950 THEN 1959964
    ELSE 2575829

\* C26: the critical value calculateConfidenceInterval uses for a level is
\* the two-sided standard-normal quantile of that level: 1.959964 for 0.95
\* and, for one, a larger value for 0.99.
C26_CriticalValueFollowsLevel ==
    (Computed /\ Res.confidenceInterval.method = "delta") =>
        /\ \A level \in {900, 950, 990} : CriticalValue(level) = NormalQuantile(level)
        /\ CriticalValue(990) > CriticalValue(950)

\* the ids of a list of registry variables
IdsOf(variables) == {variables[i].id : i \in 1 .. Len(variables)}

\* C27: a call puts each registry variable among the unknown ones when its
\* form value is null, undefined or the empty string and among the known ones
\* otherwise (false and 0 are known); a form key that is no registry variable
\* is in neither group; the result counts knownVariables and
\* unknownVariables.length to totalVariables and was computed with the model
\* on exactly the variables whose value is none of the three.
C27_KnownUnknownPartition ==
    Called =>
        LET variables == modelData[1].variables
            known == SetOf(KnownFrom(1, variables, formData))
            unknown == IdsOf(UnknownFrom(1, variables, formData))
            supplied == {id \in IdsOf(variables) :
                            Field(formData, id) \notin {Null, Undefined, Str("")}}
        IN /\ known = supplied
           /\ unknown = IdsOf(variables) \ supplied
           /\ ExtraKey \notin known \cup unknown
           /\ outcome[1].ret # <<>> =>
                 /\ Res.knownVariables = Cardinality(supplied)
                 /\ IdsOf(Res.unknownVariables) = IdsOf(variables) \ supplied
                 /\ Res.knownVariables + Len(Res.unknownVariables) = Res.totalVariables
                 /\ Res.totalVariables = Len(variables)
                 /\ SetOf(ModelNamed(Res.selectedModel).variables) = supplied

\* C27 witness: a boolean answered no and a numeric 0 are known, a null is
\* unknown, and a key outside the registry holds a value
C27_Witness ==
    /\ Computed
    /\ formData["antidepressants"] = Null
    /\ formData["depression"] = Bool(FALSE)
    /\ formData["work_disability_months"] = Fin(0)
    /\ formData[ExtraKey] = Bool(TRUE)
    /\ Res.knownVariables = 2
    /\ Len(Res.unknownVariables) = 1
    /\ Res.selectedModel = "depression_work_disability_months"

\* autoCalculate was the last handler to run, it called calculateProbability
\* and no exception was raised
AfterAutoCalculate ==
    /\ handler.name = "autoCalculate"
    /\ outcome # <<>>
    /\ ~outcome[1].threw

\* C28: after a run of autoCalculate without exception the results panel is
\* visible exactly when calculateProbability returned a result for the form
\* values the run read, and then shows that result; it is hidden when the
\* call returned none, as it does when the run read no known variable.
C28_PanelFollowsResult ==
    AfterAutoCalculate =>
        /\ results.display = "block" <=> outcome[1].ret # <<>>
        /\ outcome[1].ret # <<>> =>
              /\ results.shown # <<>>
              /\ results.shown[1].probability = outcome[1].ret[1].probability
              /\ results.shown[1].selectedModel = outcome[1].ret[1].selectedModel
        /\ outcome[1].ret = <<>> => results.display = "none"
        /\ KnownFrom(1, modelData[1].variables, formData) = <<>> =>
              (outcome[1].ret = <<>> /\ results.display = "none")

\* C28 witness: a run of autoCalculate on a form with no known variable hid a
\* panel that an earlier run had filled
C28_Witness ==
    /\ AfterAutoCalculate
    /\ outcome[1].stage = "empty"
    /\ results.shown # <<>>
    /\ results.display = "none"

\* the listeners are registered and no debounce timer is pending
Settled == pc = "ready" /\ ~timers.numeric /\ ~timers.prevalence

\* what calculateProbability gives for the form fields and the target
\* prevalence as they are now
Current ==
    calculateProbability(modelData,
                         collectFormData(modelData[1], radios, numericField),
                         prevalenceField)

\* the panel shows the current result, or is hidden when there is none
PanelIsCurrent ==
    IF Current.ret # <<>>
    THEN /\ results.display = "block"
         /\ results.shown # <<>>
         /\ results.shown[1].probability = Current.ret[1].probability
         /\ results.shown[1].selectedModel = Current.ret[1].selectedModel
         /\ results.shown[1].modelCIWidth = Current.ret[1].modelCIWidth
    ELSE results.display = "none"

\* C30: whenever the page is loaded and no debounce timer is pending, the
\* results panel shows the result calculateProbability gives for the current
\* form values and target prevalence, or is hidden when there is none.
C30_NoStaleResult == Settled => PanelIsCurrent

\* at most one timer is pending, and it is the one the last call set; func
\* has run only with the arguments of the call that was the last one when it
\* ran, and at most once after each call
DebounceSafe ==
    /\ Cardinality(timers.pending) <= 1
    /\ \A t \in timers.pending :
          /\ t.id = timers.timeout
          /\ t.id = Len(argument)
          /\ t.args = argument[Len(argument)]
    /\ \A k \in 1 .. Len(returned) :
          /\ returned[k].after \in 1 .. Len(argument)
          /\ returned[k].args = argument[returned[k].after]
    /\ \A k, l \in 1 .. Len(returned) :
          k < l => returned[k].after < returned[l].after

\* no timer is pending and, if there was a call, func has run after the last
\* one
DebounceSettled ==
    /\ timers.pending = {}
    /\ argument # <<>> =>
          /\ returned # <<>>
          /\ returned[Len(returned)].after = Len(argument)

\* C29: for a debounced function, at every moment at most one timer is
\* pending and it carries the arguments of the last call; func runs only from
\* the timer of the last call, so once per burst and with the arguments of the
\* last call of the burst; and once the calls stop, func runs after the last
\* one and no timer stays pending.
C29_Debounce == []DebounceSafe /\ <>[]DebounceSettled

\* C29 witness: three calls in two bursts, func ran after the first call and
\* after the third, never for the second
C29_Witness ==
    /\ Len(argument) = MaxCalls
    /\ Len(returned) = 2
    /\ returned[1].after = 1
    /\ returned[2].after = MaxCalls
    /\ argument[1] # argument[MaxCalls]
    /\ timers.pending = {}
====
